---- MODULE Spec2Model ----
(***************************************************************************)
(* Model of fraud_detection/transaction_analyzer.py: the TransactionAnalyzer*)
(* engine (its configuration, its merchant-count cache and its four         *)
(* detectors plus analyze_transactions).                                    *)
(*                                                                          *)
(* Conventions.                                                             *)
(*  - A DataFrame is a sequence of rows in input order; a row is a record   *)
(*    with the six required columns.  The column `amount` is a record       *)
(*    [kind, v]: kind "num" for a number, kind "str" for a non-numeric text *)
(*    cell of an object-dtype column.                                       *)
(*  - Timestamps and timedeltas are integers in hours.                      *)
(*  - Floating point percentages are exact rationals [n, d]; d = 0 is the   *)
(*    value numpy produces for x / 0 (nan for 0 / 0).                       *)
(*  - A Python call returns a record with the field exc: "none" or the name *)
(*    of the exception that left the call.                                  *)
(***************************************************************************)
EXTENDS Integers, Sequences, FiniteSets, TLC

VARIABLES df, config, _merchant_counts_cache, ret

vars == <<df, config, _merchant_counts_cache, ret>>

(* ------------------------------ bounds --------------------------------- *)
MaxTxns == 3
MaxTime == 2
MaxAmount == 1
MaxRows == 2

CustomerIds == {1, 2}
Locations == {"NYC", "LA"}
Categories == {"Jewelry", "Groceries"}

(* --------------------------- Python helpers ---------------------------- *)
Num(v) == [kind |-> "num", v |-> v]
Str == [kind |-> "str", v |-> 0]
TypeError == [kind |-> "TypeError", v |-> 0]

Rat(n, d) == IF d = 0 /\ n = 0 THEN [n |-> 0, d |-> 0]
             ELSE IF d = 0 THEN [n |-> 1, d |-> 0]
             ELSE [n |-> n, d |-> d]

IsFinite(a) == a.d # 0

\* a > b on floats: every comparison with nan is False
Gt(a, b) == IF a.d # 0 /\ b.d # 0 THEN a.n * b.d > b.n * a.d
            ELSE a.d = 0 /\ a.n = 1 /\ b.d # 0

RECURSIVE SeqSum(_)
SeqSum(s) == IF s = <<>> THEN 0 ELSE Head(s) + SeqSum(Tail(s))

\* Series.sum() of the amount column of a frame: numbers add, text cells of an
\* object column concatenate, a number and a text cell raise TypeError
pd_sum(transactions) ==
    LET n == Len(transactions) IN
    IF \A i \in 1..n : transactions[i].amount.kind = "num"
      THEN Num(SeqSum([i \in 1..n |-> transactions[i].amount.v]))
    ELSE IF \A i \in 1..n : transactions[i].amount.kind = "str"
      THEN Str
    ELSE TypeError

\* dtype of the amount column of the whole frame
amount_dtype(d) ==
    IF \A i \in 1..Len(d) : d[i].amount.kind = "num" THEN "float64" ELSE "object"

\* s[a:b] of Python (negative indexes count from the end, bounds are clamped)
PyIndex(n, k) == IF k < 0 THEN (IF k + n < 0 THEN 0 ELSE k + n)
                 ELSE (IF k > n THEN n ELSE k)

iloc_slice(s, a, b) ==
    LET lo == PyIndex(Len(s), a)
        hi == PyIndex(Len(s), b)
    IN  IF hi <= lo THEN <<>> ELSE SubSeq(s, lo + 1, hi)

\* the keys of df.groupby('customer_id'), in the sorted order groupby yields them
RECURSIVE SortedKeys(_)
SortedKeys(S) ==
    IF S = {} THEN <<>>
    ELSE LET m == CHOOSE x \in S : \A y \in S : x <= y
         IN  <<m>> \o SortedKeys(S \ {m})

groupby_keys(d) == SortedKeys({d[i].customer_id : i \in 1..Len(d)})

\* one group of df.groupby('customer_id'): the customer's rows in input order
group(d, customer_id) == SelectSeq(d, LAMBDA t : t.customer_id = customer_id)

\* transactions.sort_values('timestamp'): rows with equal timestamps keep
\* their input order
RECURSIVE insert_sorted(_, _)
insert_sorted(s, t) ==
    IF s = <<>> THEN <<t>>
    ELSE IF s[Len(s)].timestamp <= t.timestamp THEN Append(s, t)
    ELSE Append(insert_sorted(SubSeq(s, 1, Len(s) - 1), t), s[Len(s)])

\* mutant: the rows are left in input order
sort_values_unsorted(transactions) == transactions

RECURSIVE sort_loop(_, _)
sort_loop(todo, sorted) ==
    IF todo = <<>> THEN sorted
    ELSE sort_loop(Tail(todo), insert_sorted(sorted, Head(todo)))

sort_values(transactions) == sort_loop(transactions, <<>>)

(* ---------------------------- __init__ --------------------------------- *)
default_config ==
    [ high_amount_threshold          |-> 5000,
      rapid_transaction_window_hours |-> 1,
      rapid_transaction_count        |-> 3,
      travel_time_threshold_hours    |-> 2,
      high_risk_categories           |-> <<"Jewelry", "Electronics">>,
      risk_threshold_percentage      |-> 50,
      enable_caching                 |-> TRUE ]

HIGH_AMOUNT_THRESHOLD(cfg) == cfg.high_amount_threshold
RAPID_TRANSACTION_WINDOW(cfg) == cfg.rapid_transaction_window_hours
RAPID_TRANSACTION_COUNT(cfg) == cfg.rapid_transaction_count
TRAVEL_TIME_THRESHOLD(cfg) == cfg.travel_time_threshold_hours
HIGH_RISK_CATEGORIES(cfg) == cfg.high_risk_categories
RISK_THRESHOLD(cfg) == Rat(cfg.risk_threshold_percentage, 100)

(* ------------------- find_high_value_transactions ---------------------- *)
\* on an object column holding text, `amount > threshold` raises TypeError
find_high_value_transactions(d, cfg) ==
    IF amount_dtype(d) = "object"
      THEN [exc |-> "TypeError", value |-> <<>>]
      ELSE [exc |-> "none",
            value |-> SelectSeq(d, LAMBDA t : t.amount.v > HIGH_AMOUNT_THRESHOLD(cfg))]

(* ---------------------- find_rapid_transactions ------------------------ *)
\* mutant: a span equal to the window does not qualify
rapid_window_cond_strict(time_diff, cfg) == time_diff < RAPID_TRANSACTION_WINDOW(cfg)

rapid_window_cond(time_diff, cfg) == time_diff <= RAPID_TRANSACTION_WINDOW(cfg)

RECURSIVE rapid_scan(_, _, _, _)
rapid_scan(sorted_txns, cfg, i, patterns) ==
    IF i >= Len(sorted_txns) - RAPID_TRANSACTION_COUNT(cfg) + 1
      THEN [exc |-> "none", patterns |-> patterns]
    ELSE
      LET window == iloc_slice(sorted_txns, i, i + RAPID_TRANSACTION_COUNT(cfg)) IN
      IF window = <<>>
        THEN [exc |-> "IndexError", patterns |-> <<>>]
      ELSE
        LET time_diff == window[Len(window)].timestamp - window[1].timestamp IN
        IF rapid_window_cond(time_diff, cfg)
          THEN IF pd_sum(window) = TypeError
                 THEN [exc |-> "TypeError", patterns |-> <<>>]
                 ELSE rapid_scan(sorted_txns, cfg, i + 1,
                        Append(patterns,
                          [ transactions |-> [j \in 1..Len(window) |-> window[j].transaction_id],
                            time_window  |-> time_diff,
                            total_amount |-> pd_sum(window) ]))
          ELSE rapid_scan(sorted_txns, cfg, i + 1, patterns)

RECURSIVE rapid_loop(_, _, _, _)
rapid_loop(d, cfg, keys, suspicious_patterns) ==
    IF keys = <<>> THEN [exc |-> "none", value |-> suspicious_patterns]
    ELSE
      LET customer_id == Head(keys)
          sorted_txns == sort_values(group(d, customer_id))
          r == rapid_scan(sorted_txns, cfg, 0, <<>>)
      IN  IF r.exc # "none" THEN [exc |-> r.exc, value |-> <<>>]
          ELSE rapid_loop(d, cfg, Tail(keys),
                 IF r.patterns = <<>> THEN suspicious_patterns
                 ELSE (customer_id :> r.patterns) @@ suspicious_patterns)

find_rapid_transactions(d, cfg) == rapid_loop(d, cfg, groupby_keys(d), <<>>)

(* ----------------------- find_impossible_travel ------------------------ *)
\* mutant: a gap equal to the threshold is anomalous
travel_cond_inclusive(curr_txn, next_txn, cfg) ==
    /\ curr_txn.location # next_txn.location
    /\ next_txn.timestamp - curr_txn.timestamp <= TRAVEL_TIME_THRESHOLD(cfg)

travel_cond(curr_txn, next_txn, cfg) ==
    /\ curr_txn.location # next_txn.location
    /\ next_txn.timestamp - curr_txn.timestamp < TRAVEL_TIME_THRESHOLD(cfg)

travel_entry(customer_id, curr_txn, next_txn) ==
    [ customer_id  |-> customer_id,
      transaction1 |-> [ id |-> curr_txn.transaction_id,
                         location |-> curr_txn.location,
                         timestamp |-> curr_txn.timestamp ],
      transaction2 |-> [ id |-> next_txn.transaction_id,
                         location |-> next_txn.location,
                         timestamp |-> next_txn.timestamp ],
      time_difference |-> next_txn.timestamp - curr_txn.timestamp ]

RECURSIVE travel_scan(_, _, _, _, _)
travel_scan(customer_id, sorted_txns, cfg, i, suspicious_travel) ==
    IF i >= Len(sorted_txns) - 1 THEN suspicious_travel
    ELSE
      LET curr_txn == sorted_txns[i + 1]
          next_txn == sorted_txns[i + 2]
      IN  travel_scan(customer_id, sorted_txns, cfg, i + 1,
            IF travel_cond(curr_txn, next_txn, cfg)
              THEN Append(suspicious_travel, travel_entry(customer_id, curr_txn, next_txn))
              ELSE suspicious_travel)

RECURSIVE travel_loop(_, _, _, _)
travel_loop(d, cfg, keys, suspicious_travel) ==
    IF keys = <<>> THEN suspicious_travel
    ELSE travel_loop(d, cfg, Tail(keys),
           travel_scan(Head(keys), sort_values(group(d, Head(keys))), cfg, 0,
                       suspicious_travel))

find_impossible_travel(d, cfg) ==
    [exc |-> "none", value |-> travel_loop(d, cfg, groupby_keys(d), <<>>)]

(* ------------------------ _get_merchant_counts ------------------------- *)
\* transactions['merchant_category'].value_counts(): category -> count, over
\* the categories that occur
value_counts(transactions) ==
    [c \in {transactions[i].merchant_category : i \in 1..Len(transactions)} |->
        Cardinality({i \in 1..Len(transactions) : transactions[i].merchant_category = c})]

\* mutant: the cache is looked up without the customer id
_get_merchant_counts_unkeyed(cfg, cache, customer_id, transactions) ==
    IF ~cfg.enable_caching \/ DOMAIN cache = {}
      THEN [ counts |-> value_counts(transactions),
             cache  |-> (customer_id :> value_counts(transactions)) @@ cache,
             hit    |-> FALSE ]
      ELSE [ counts |-> cache[CHOOSE k \in DOMAIN cache : TRUE], cache |-> cache,
             hit    |-> TRUE ]

\* returns the counts, the cache after the call, and whether the cache was read
_get_merchant_counts(cfg, cache, customer_id, transactions) ==
    IF ~cfg.enable_caching \/ customer_id \notin DOMAIN cache
      THEN [ counts |-> value_counts(transactions),
             cache  |-> (customer_id :> value_counts(transactions)) @@ cache,
             hit    |-> FALSE ]
      ELSE [ counts |-> cache[customer_id], cache |-> cache, hit |-> TRUE ]

(* ------------------------ _calculate_risk_score ------------------------ *)
\* lines 154-161: the loop over self.HIGH_RISK_CATEGORIES (a list)
RECURSIVE high_risk_loop(_, _, _, _, _)
high_risk_loop(categories, merchant_counts, transactions, high_risk_count, high_risk_amount) ==
    IF categories = <<>>
      THEN [exc |-> "none", high_risk_count |-> high_risk_count,
            high_risk_amount |-> high_risk_amount]
    ELSE
      LET category == Head(categories) IN
      IF category \in DOMAIN merchant_counts
        THEN LET cat_transactions ==
                   SelectSeq(transactions, LAMBDA t : t.merchant_category = category)
                 cat_count == Len(cat_transactions)
                 cat_amount == pd_sum(cat_transactions)
             IN  IF cat_amount.kind # "num"
                   \* the sum of a mixed column, or 0.0 + text
                   THEN [exc |-> "TypeError", high_risk_count |-> 0, high_risk_amount |-> 0]
                   ELSE high_risk_loop(Tail(categories), merchant_counts, transactions,
                                       high_risk_count + cat_count,
                                       high_risk_amount + cat_amount.v)
        ELSE high_risk_loop(Tail(categories), merchant_counts, transactions,
                            high_risk_count, high_risk_amount)

\* mutant: the test for no high-risk transaction never succeeds
no_high_risk_negative(high_risk_count) == high_risk_count < 0

\* line 163
no_high_risk(high_risk_count) == high_risk_count = 0

None == [exc |-> "none", none |-> TRUE, data |-> <<>>]
Raise(e) == [exc |-> e, none |-> TRUE, data |-> <<>>]

_calculate_risk_score(cfg, merchant_counts, transactions, dtype) ==
    LET total_transactions == Len(transactions)
        total_amount == pd_sum(transactions)
        hr == high_risk_loop(HIGH_RISK_CATEGORIES(cfg), merchant_counts, transactions, 0, 0)
    IN
    IF total_transactions = 0 THEN None
    ELSE IF total_amount = TypeError THEN Raise("TypeError")
    ELSE IF hr.exc # "none" THEN Raise(hr.exc)
    ELSE IF no_high_risk(hr.high_risk_count) THEN None
    ELSE IF total_amount.kind # "num" THEN Raise("TypeError")
    \* Python numbers of an object column: float / 0 raises
    ELSE IF total_amount.v = 0 /\ dtype = "object" THEN Raise("ZeroDivisionError")
    ELSE
      LET risk_percentage == Rat(hr.high_risk_count * 100, total_transactions)
          \* numpy numbers: x / 0 is nan or inf, with a warning
          amount_percentage == Rat(hr.high_risk_amount * 100, total_amount.v)
          risk_score ==
              IF IsFinite(amount_percentage)
                THEN Rat(risk_percentage.n * amount_percentage.d
                           + amount_percentage.n * risk_percentage.d,
                         2 * risk_percentage.d * amount_percentage.d)
                ELSE amount_percentage
      IN  [ exc  |-> "none",
            none |-> FALSE,
            data |-> [ total_transactions     |-> total_transactions,
                       high_risk_transactions |-> hr.high_risk_count,
                       total_amount           |-> total_amount.v,
                       high_risk_amount       |-> hr.high_risk_amount,
                       merchant_distribution  |-> merchant_counts,
                       risk_percentage        |-> risk_percentage,
                       amount_percentage      |-> amount_percentage,
                       risk_score             |-> risk_score ] ]

(* ------------------- find_unusual_merchant_patterns -------------------- *)
\* line 195
is_flagged(risk, cfg) == ~risk.none /\ Gt(risk.data.risk_score, RISK_THRESHOLD(cfg))

\* lines 189-196; an exception leaves the loop and is caught at line 200
RECURSIVE unusual_loop(_, _, _, _, _, _)
unusual_loop(d, cfg, keys, cache, hits, unusual_patterns) ==
    IF keys = <<>>
      THEN [caught |-> "none", value |-> unusual_patterns, cache |-> cache, hits |-> hits]
    ELSE
      LET customer_id == Head(keys)
          transactions == group(d, customer_id)
          g == _get_merchant_counts(cfg, cache, customer_id, transactions)
          risk_data == _calculate_risk_score(cfg, g.counts, transactions, amount_dtype(d))
          hits2 == IF g.hit THEN hits \cup {customer_id} ELSE hits
      IN  IF risk_data.exc # "none"
            THEN [caught |-> risk_data.exc, value |-> <<>>, cache |-> g.cache, hits |-> hits2]
            ELSE unusual_loop(d, cfg, Tail(keys), g.cache, hits2,
                   IF is_flagged(risk_data, cfg)
                     THEN (customer_id :> risk_data.data) @@ unusual_patterns
                     ELSE unusual_patterns)

find_unusual_merchant_patterns(d, cfg, cache) ==
    unusual_loop(d, cfg, groupby_keys(d), cache, {}, <<>>)

(* ------------------------------ state ---------------------------------- *)
\* what the last call returned; a detector that was not part of the call has
\* its empty result
NoReturn ==
    [ op  |-> "__init__",
      exc |-> "none",
      high_value_transactions   |-> <<>>,
      rapid_transactions        |-> <<>>,
      impossible_travel         |-> <<>>,
      unusual_merchant_patterns |-> <<>>,
      caught |-> "none",
      hits   |-> {} ]

Row(id, customer_id, timestamp, amount, location, merchant_category) ==
    [ transaction_id    |-> id,
      customer_id       |-> customer_id,
      timestamp         |-> timestamp,
      amount            |-> amount,
      location          |-> location,
      merchant_category |-> merchant_category ]

ValidCounts == {2, 3}
InvalidCounts == {-1, 0, 1}
TieTimes == {0, 1}
TravelThresholds == {1}
RiskThresholds == {-100, 0, 50}

InitCommon ==
    /\ _merchant_counts_cache = <<>>
    /\ ret = NoReturn

\* the datasets of the time-based detectors: customer and timestamp vary, the
\* amount of a row is its position
TimedFrames(times, locs) ==
    UNION { { [i \in 1..n |-> Row(i, cust[i], ts[i], Num(i), loc[i], "Groceries")] :
                cust \in [1..n -> CustomerIds], ts \in [1..n -> times],
                loc \in [1..n -> locs] } : n \in 1..MaxTxns }

\* the datasets of the merchant risk scorer: customer, category and amount vary
RiskFrames(amounts) ==
    UNION { { [i \in 1..n |-> Row(i, cust[i], i, amt[i], "NYC", cat[i])] :
                cust \in [1..n -> CustomerIds], cat \in [1..n -> Categories],
                amt \in [1..n -> amounts] } : n \in 1..MaxRows }

\* a valid rapid_transaction_count
InitRapid ==
    /\ df \in TimedFrames(0..MaxTime, {"NYC"})
    /\ \E c \in ValidCounts :
         config = [default_config EXCEPT !.rapid_transaction_count = c,
                                         !.high_amount_threshold = 1]
    /\ InitCommon

\* a rapid_transaction_count below 2, which __init__ accepts as it is
InitInvalidCount ==
    /\ df \in TimedFrames(0..MaxTime, {"NYC"})
    /\ \E c \in InvalidCounts :
         config = [default_config EXCEPT !.rapid_transaction_count = c,
                                         !.high_amount_threshold = 1]
    /\ InitCommon

\* locations vary; the timestamps give every gap up to the travel threshold
InitTravel ==
    /\ \E h \in TravelThresholds :
         /\ df \in TimedFrames(0..h, Locations)
         /\ config = [default_config EXCEPT !.travel_time_threshold_hours = h,
                                            !.high_amount_threshold = 1]
    /\ InitCommon

\* locations vary and timestamps tie
InitOrder ==
    /\ df \in TimedFrames(TieTimes, Locations)
    /\ config = [default_config EXCEPT !.rapid_transaction_count = 2,
                                       !.high_amount_threshold = 1]
    /\ InitCommon

\* a numeric amount column
InitRisk ==
    /\ df \in RiskFrames({Num(v) : v \in 0..MaxAmount})
    /\ \E p \in RiskThresholds, caching \in BOOLEAN :
         config = [default_config EXCEPT !.risk_threshold_percentage = p,
                                         !.enable_caching = caching,
                                         !.high_amount_threshold = 0]
    /\ InitCommon

\* a high_risk_categories list that names a category twice
InitDuplicateCategories ==
    /\ df \in RiskFrames({Num(v) : v \in 0..MaxAmount})
    /\ \E caching \in BOOLEAN :
         config = [default_config EXCEPT !.high_risk_categories = <<"Jewelry", "Jewelry">>,
                                         !.enable_caching = caching,
                                         !.high_amount_threshold = 0]
    /\ InitCommon

\* an amount column that holds non-numeric text in some rows
InitFault ==
    /\ df \in RiskFrames({Num(v) : v \in 1..MaxAmount} \cup {Str})
    /\ \E caching \in BOOLEAN :
         config = [default_config EXCEPT !.enable_caching = caching,
                                         !.high_amount_threshold = 0]
    /\ InitCommon

Init == \/ InitRapid \/ InitInvalidCount \/ InitTravel \/ InitOrder
        \/ InitRisk \/ InitDuplicateCategories \/ InitFault

(* ----------------------------- actions --------------------------------- *)
FindHighValueTransactions ==
    LET r == find_high_value_transactions(df, config) IN
    /\ ret' = [NoReturn EXCEPT !.op = "find_high_value_transactions",
                               !.exc = r.exc,
                               !.high_value_transactions = r.value]
    /\ UNCHANGED <<df, config, _merchant_counts_cache>>

FindRapidTransactions ==
    LET r == find_rapid_transactions(df, config) IN
    /\ ret' = [NoReturn EXCEPT !.op = "find_rapid_transactions",
                               !.exc = r.exc,
                               !.rapid_transactions = r.value]
    /\ UNCHANGED <<df, config, _merchant_counts_cache>>

FindImpossibleTravel ==
    LET r == find_impossible_travel(df, config) IN
    /\ ret' = [NoReturn EXCEPT !.op = "find_impossible_travel",
                               !.exc = r.exc,
                               !.impossible_travel = r.value]
    /\ UNCHANGED <<df, config, _merchant_counts_cache>>

FindUnusualMerchantPatterns ==
    LET r == find_unusual_merchant_patterns(df, config, _merchant_counts_cache) IN
    /\ ret' = [NoReturn EXCEPT !.op = "find_unusual_merchant_patterns",
                               !.unusual_merchant_patterns = r.value,
                               !.caught = r.caught,
                               !.hits = r.hits]
    /\ _merchant_counts_cache' = r.cache
    /\ UNCHANGED <<df, config>>

\* the dict display of line 206 evaluates the four calls in order; an
\* exception of one of them leaves analyze_transactions
AnalyzeTransactions ==
    LET hv == find_high_value_transactions(df, config)
        rt == find_rapid_transactions(df, config)
        it == find_impossible_travel(df, config)
        um == find_unusual_merchant_patterns(df, config, _merchant_counts_cache)
        raised == IF hv.exc # "none" THEN hv.exc
                  ELSE IF rt.exc # "none" THEN rt.exc
                  ELSE it.exc
    IN
    IF raised # "none"
      THEN /\ ret' = [NoReturn EXCEPT !.op = "analyze_transactions", !.exc = raised]
           /\ UNCHANGED <<df, config, _merchant_counts_cache>>
      ELSE /\ ret' = [NoReturn EXCEPT !.op = "analyze_transactions",
                                      !.high_value_transactions = hv.value,
                                      !.rapid_transactions = rt.value,
                                      !.impossible_travel = it.value,
                                      !.unusual_merchant_patterns = um.value,
                                      !.caught = um.caught,
                                      !.hits = um.hits]
           /\ _merchant_counts_cache' = um.cache
           /\ UNCHANGED <<df, config>>

Next ==
    \/ FindHighValueTransactions
    \/ FindRapidTransactions
    \/ FindImpossibleTravel
    \/ FindUnusualMerchantPatterns
    \/ AnalyzeTransactions

Spec == Init /\ [][Next]_vars
SpecRapid == InitRapid /\ [][Next]_vars
SpecInvalidCount == InitInvalidCount /\ [][Next]_vars
SpecTravel == InitTravel /\ [][Next]_vars
SpecOrder == InitOrder /\ [][Next]_vars
SpecRisk == InitRisk /\ [][Next]_vars
SpecDuplicateCategories == InitDuplicateCategories /\ [][Next]_vars
SpecFault == InitFault /\ [][Next]_vars

(* ============================ properties =============================== *)
TheCustomers == {df[i].customer_id : i \in 1..Len(df)}
SortedGroup(c) == sort_values(group(df, c))
HighRiskSet == {config.high_risk_categories[i] : i \in 1..Len(config.high_risk_categories)}
HighRiskRows(c) == SelectSeq(group(df, c), LAMBDA t : t.merchant_category \in HighRiskSet)
ThresholdPoints == Rat(config.risk_threshold_percentage, 1)
RanMerchantScorer == ret.op \in {"find_unusual_merchant_patterns", "analyze_transactions"}
                     /\ ret.exc = "none"

\* C1: every customer in the result of find_unusual_merchant_patterns has a
\* risk_score strictly greater than the threshold in percentage points
\* (risk_threshold_percentage); a score equal to it is not flagged.
C1_FlaggedOnlyAboveThreshold ==
    ret.op = "find_unusual_merchant_patterns" =>
      \A c \in DOMAIN ret.unusual_merchant_patterns :
        Gt(ret.unusual_merchant_patterns[c].risk_score, ThresholdPoints)

ScoredAlone(c) ==
    _calculate_risk_score(config, value_counts(group(df, c)), group(df, c), amount_dtype(df))

\* C2: a customer who is flagged when scored on their own is in the result of
\* find_unusual_merchant_patterns, also when scoring another customer raises.
C2_FaultIsolated ==
    ret.op = "find_unusual_merchant_patterns" =>
      \A y \in TheCustomers :
        (ScoredAlone(y).exc = "none" /\ is_flagged(ScoredAlone(y), config))
          => y \in DOMAIN ret.unusual_merchant_patterns

\* C3: a customer with a high-risk transaction and total_amount = 0 gets
\* amount_percentage 0 and risk_score = risk_percentage / 2, and is flagged
\* exactly when that score exceeds the threshold.
C3_ZeroTotalGuarded ==
    ret.op = "find_unusual_merchant_patterns" =>
      \A c \in TheCustomers :
        (Len(HighRiskRows(c)) >= 1 /\ pd_sum(group(df, c)) = Num(0)) =>
          /\ ret.caught = "none"
          /\ c \in DOMAIN ret.unusual_merchant_patterns
               <=> Gt(Rat(Len(HighRiskRows(c)) * 100, 2 * Len(group(df, c))), ThresholdPoints)
          /\ c \in DOMAIN ret.unusual_merchant_patterns
               => ret.unusual_merchant_patterns[c].amount_percentage.n = 0

\* C4: with rapid_transaction_count < 2, find_rapid_transactions scans no
\* window: it indexes no empty window and emits no pattern.
C4_InvalidCountRejected ==
    (RAPID_TRANSACTION_COUNT(config) < 2 /\ ret.op = "find_rapid_transactions") =>
      /\ ret.exc # "IndexError"
      /\ DOMAIN ret.rapid_transactions = {}

InputOrders(d) ==
    { [i \in 1..Len(d) |-> d[p[i]]] :
        p \in { q \in [1..Len(d) -> 1..Len(d)] : \A i, j \in 1..Len(d) : q[i] = q[j] => i = j } }

SameAnalysis(d) ==
    /\ find_rapid_transactions(d, config).exc = "none"
    /\ find_rapid_transactions(d, config).value = ret.rapid_transactions
    /\ find_impossible_travel(d, config).value = ret.impossible_travel
    /\ find_unusual_merchant_patterns(d, config, <<>>).value = ret.unusual_merchant_patterns

NoTies == \A i, j \in 1..Len(df) :
            (df[i].customer_id = df[j].customer_id /\ df[i].timestamp = df[j].timestamp)
              => i = j

ResultAsFresh ==
    RanMerchantScorer =>
      ret.unusual_merchant_patterns =
        find_unusual_merchant_patterns(df, [config EXCEPT !.enable_caching = FALSE], <<>>).value

CacheIsPrivate ==
    ret'.op \in {"find_high_value_transactions", "find_rapid_transactions",
                 "find_impossible_travel"}
      => _merchant_counts_cache' = _merchant_counts_cache

\* C6: whatever calls came before, find_unusual_merchant_patterns returns what
\* a fresh instance without caching returns.
\* The other three detectors leave the cache as it is.
C6_CacheNotObservable == []ResultAsFresh /\ [][CacheIsPrivate]_vars

C6_Witness ==
    /\ ret.op = "find_unusual_merchant_patterns"
    /\ config.enable_caching
    /\ Cardinality(TheCustomers) = 2
    /\ ret.hits = TheCustomers
    /\ DOMAIN ret.unusual_merchant_patterns # {}
    /\ DOMAIN ret.unusual_merchant_patterns # TheCustomers

QualifyingStarts(c) ==
    LET s == SortedGroup(c)
        k == RAPID_TRANSACTION_COUNT(config)
    IN  { i \in 0..(Len(s) - k) :
            s[i + k].timestamp - s[i + 1].timestamp <= RAPID_TRANSACTION_WINDOW(config) }

ExpectedPattern(c, i) ==
    LET s == SortedGroup(c)
        k == RAPID_TRANSACTION_COUNT(config)
    IN  [ transactions |-> [j \in 1..k |-> s[i + j].transaction_id],
          time_window  |-> s[i + k].timestamp - s[i + 1].timestamp,
          total_amount |-> Num(SeqSum([j \in 1..k |-> s[i + j].amount.v])) ]

\* C7: for a count c >= 2, a customer's patterns are exactly the windows
\* [i, i+c) of the timestamp-sorted transactions with
\* timestamp[i+c-1] - timestamp[i] <= rapid_transaction_window, one pattern per
\* such i in increasing i, with the window's ids, span and amount sum; a
\* customer is a key of the result iff it has such a window.
C7_RapidWindows ==
    (RAPID_TRANSACTION_COUNT(config) >= 2 /\ ret.op = "find_rapid_transactions") =>
      /\ ret.exc = "none"
      /\ \A c \in CustomerIds :
           LET s == SortedGroup(c)
               Q == QualifyingStarts(c)
           IN  /\ \A i \in 1..Len(s) - 1 : s[i].timestamp <= s[i + 1].timestamp
               /\ c \in DOMAIN ret.rapid_transactions <=> Q # {}
               /\ c \in DOMAIN ret.rapid_transactions =>
                    /\ Len(ret.rapid_transactions[c]) = Cardinality(Q)
                    /\ \A i \in Q :
                         ret.rapid_transactions[c][Cardinality({q \in Q : q < i}) + 1]
                           = ExpectedPattern(c, i)

C7_Witness ==
    /\ ret.op = "find_rapid_transactions"
    /\ RAPID_TRANSACTION_COUNT(config) = 2
    /\ \E c \in DOMAIN ret.rapid_transactions :
         /\ Len(ret.rapid_transactions[c]) = 2
         /\ ret.rapid_transactions[c][1].time_window = RAPID_TRANSACTION_WINDOW(config)
         /\ ret.rapid_transactions[c][1].transactions[2]
              = ret.rapid_transactions[c][2].transactions[1]

AdjacentPairs(c) == 1..(Len(SortedGroup(c)) - 1)

ExpectedAnomalies ==
    { travel_entry(c, SortedGroup(c)[i], SortedGroup(c)[i + 1]) :
        <<c, i>> \in { x \in CustomerIds \X (1..MaxTxns) :
            /\ x[2] \in AdjacentPairs(x[1])
            /\ SortedGroup(x[1])[x[2]].location # SortedGroup(x[1])[x[2] + 1].location
            /\ SortedGroup(x[1])[x[2] + 1].timestamp - SortedGroup(x[1])[x[2]].timestamp
                 < TRAVEL_TIME_THRESHOLD(config) } }

\* C8: the anomalies of find_impossible_travel are exactly the pairs adjacent
\* in a customer's timestamp order whose locations differ and whose gap is
\* strictly below travel_time_threshold, each reported once.
C8_TravelPairs ==
    ret.op = "find_impossible_travel" =>
      /\ { ret.impossible_travel[j] : j \in 1..Len(ret.impossible_travel) } = ExpectedAnomalies
      /\ Len(ret.impossible_travel) = Cardinality(ExpectedAnomalies)

C8_Witness ==
    /\ ret.op = "find_impossible_travel"
    /\ Len(ret.impossible_travel) = 1
    /\ \E c \in TheCustomers :
         /\ Len(SortedGroup(c)) = 3
         /\ SortedGroup(c)[2].location # SortedGroup(c)[3].location
         /\ SortedGroup(c)[3].timestamp - SortedGroup(c)[2].timestamp
              = TRAVEL_TIME_THRESHOLD(config)
         /\ SortedGroup(c)[1].location # SortedGroup(c)[2].location

\* C9: a customer without a transaction in a high-risk category is not in the
\* result of find_unusual_merchant_patterns.
C9_NoHighRiskNeverFlagged ==
    RanMerchantScorer =>
      \A c \in DOMAIN ret.unusual_merchant_patterns : Len(HighRiskRows(c)) >= 1

C9_Witness ==
    /\ ret.op = "find_unusual_merchant_patterns"
    /\ config.risk_threshold_percentage < 0
    /\ \E c \in TheCustomers :
         /\ HighRiskRows(c) = <<>>
         /\ pd_sum(group(df, c)).v >= 1
         /\ c \notin DOMAIN ret.unusual_merchant_patterns
    /\ DOMAIN ret.unusual_merchant_patterns # {}

\* C10: in every profile, high_risk_transactions and high_risk_amount count
\* each high-risk transaction of the customer once, so
\* high_risk_transactions <= total_transactions and risk_score <= 100.
C10_HighRiskCountedOnce ==
    ret.op = "find_unusual_merchant_patterns" =>
      \A c \in DOMAIN ret.unusual_merchant_patterns :
        LET p == ret.unusual_merchant_patterns[c] IN
        /\ p.high_risk_transactions = Len(HighRiskRows(c))
        /\ p.high_risk_amount = pd_sum(HighRiskRows(c)).v
        /\ p.high_risk_transactions <= p.total_transactions
        /\ ~Gt(p.risk_score, Rat(100, 1))

====
